---- MODULE Spec2Model ----
(***************************************************************************)
(* Model of scripts/validate_catalog_binding.py: the catalog loader, the   *)
(* two reference collectors, the validation loop and the report of main.   *)
(*                                                                         *)
(* Text is a tuple of one-character strings.  A document is a sequence of  *)
(* lines (dependent configuration, catalog entries) or of table rows       *)
(* (plans); the regular expressions of the source are evaluated on these   *)
(* by the operators below, character by character within a field.          *)
(***************************************************************************)
EXTENDS Integers, Sequences, FiniteSets, TLC

VARIABLES
    index,       \* catalog/index.json: absent, unreadable, invalid JSON, or a JSON value
    entries,     \* catalog/patterns/**/*.yaml: path -> [stem, readable, lines]
    manifests,   \* manifests/**/*.yaml: path -> [readable, lines]
    plans,       \* specs/**/plan.md: path -> [readable, rows]
    pc,          \* position of main
    valid_ids,   \* main: valid_ids
    used_ids,    \* main: used_ids, a sequence of <<path, identifier>>
    errors,      \* main: errors
    stdout,      \* the report printed on standard output
    stderr,      \* diagnostics printed on the error stream
    exit_code,   \* the process outcome (-1 while running)
    verbose,     \* "--verbose" in sys.argv or "-v" in sys.argv
    run,         \* which run over the unchanged tree this is
    first_report \* stdout and exit code of the first run, kept for comparison

vars == <<index, entries, manifests, plans, pc, valid_ids, used_ids, errors,
          stdout, stderr, exit_code, verbose, run, first_report>>

tree == <<index, entries, manifests, plans>>

----------------------------------------------------------------------------
(* Characters and the character classes of the regular expressions *)

LowerSeq == <<"a","b","c","d","e","f","g","h","i","j","k","l","m",
              "n","o","p","q","r","s","t","u","v","w","x","y","z">>
UpperSeq == <<"A","B","C","D","E","F","G","H","I","J","K","L","M",
              "N","O","P","Q","R","S","T","U","V","W","X","Y","Z">>
Digits == {"0","1","2","3","4","5","6","7","8","9"}

Range(s) == {s[i] : i \in DOMAIN s}

\* \s
IsSpace(c) == c \in {" ", "\t", "\n"}

\* [a-z0-9-]
IsIdChar(c) == c \in Range(LowerSeq) \cup Digits \cup {"-"}

\* [a-z0-9-] under re.IGNORECASE
IsIdCharIgnoreCase(c) == IsIdChar(c) \/ c \in Range(UpperSeq)

\* the case folding re.IGNORECASE applies to a literal
ToLower(c) ==
    IF c \in Range(UpperSeq)
    THEN LowerSeq[CHOOSE i \in DOMAIN UpperSeq : UpperSeq[i] = c]
    ELSE c

\* ["\']
IsQuote(c) == c \in {"\"", "'"}

\* [a-z0-9-]+ against the whole of s
IsIdentifier(s) == Len(s) > 0 /\ \A i \in DOMAIN s : IsIdChar(s[i])

IsIdentifierIgnoreCase(s) == Len(s) > 0 /\ \A i \in DOMAIN s : IsIdCharIgnoreCase(s[i])

IsBlank(s) == \A i \in DOMAIN s : IsSpace(s[i])

\* s without its first n characters
Drop(s, n) == SubSeq(s, n + 1, Len(s))

\* str.strip(): leading and trailing characters of the class removed
RECURSIVE LStripOf(_, _)
LStripOf(s, cls) ==
    IF Len(s) > 0 /\ s[1] \in cls THEN LStripOf(Tail(s), cls) ELSE s

RECURSIVE RStripOf(_, _)
RStripOf(s, cls) ==
    IF Len(s) > 0 /\ s[Len(s)] \in cls
    THEN RStripOf(SubSeq(s, 1, Len(s) - 1), cls)
    ELSE s

StripOf(s, cls) == RStripOf(LStripOf(s, cls), cls)

Spaces == {" ", "\t", "\n"}

Strip(s) == StripOf(s, Spaces)

\* str.split(sep): the fields between the separators
RECURSIVE Split(_, _)
Split(s, sep) ==
    IF \E i \in DOMAIN s : s[i] = sep
    THEN LET k == CHOOSE i \in DOMAIN s : s[i] = sep /\ \A j \in 1..(i - 1) : s[j] # sep
         IN <<SubSeq(s, 1, k - 1)>> \o Split(Drop(s, k), sep)
    ELSE <<s>>

\* does s begin with the literal lit, compared case-insensitively
StartsWithIgnoreCase(s, lit) ==
    /\ Len(s) >= Len(lit)
    /\ \A i \in DOMAIN lit : ToLower(s[i]) = lit[i]

----------------------------------------------------------------------------
(* The field recognizers:  ^\s*KEY:\s*["\']?([a-z0-9-]+)["\']?\s*$         *)
(* A line is [indent, key, val]: the key that starts the line, indented or *)
(* not, and the text after the colon.  val may run over following lines,   *)
(* holding "\n", as long as none of them starts a key, is a lone dash, or  *)
(* leaves a bracket list of a from_catalog key open.                       *)

\* the longest prefix of s made of [a-z0-9-]
RECURSIVE IdPrefixLen(_)
IdPrefixLen(s) ==
    IF Len(s) > 0 /\ IsIdChar(s[1]) THEN 1 + IdPrefixLen(Tail(s)) ELSE 0

\* the text up to the first line end
RECURSIVE FirstLine(_)
FirstLine(s) ==
    IF Len(s) = 0 \/ s[1] = "\n" THEN <<>> ELSE <<s[1]>> \o FirstLine(Tail(s))

DropQuote(s) == IF Len(s) > 0 /\ IsQuote(s[1]) THEN Tail(s) ELSE s

\*  \s*["\']?([a-z0-9-]+)["\']?\s*$  against the text after the colon
ValueMatch(val) ==
    LET body == DropQuote(LStripOf(val, Spaces))
        n    == IdPrefixLen(body)
        rest == DropQuote(Drop(body, n))
    IN  [found |-> n > 0 /\ IsBlank(FirstLine(rest)),
         group |-> SubSeq(body, 1, n)]

\* re.finditer of a field recognizer over the text: the groups, in text order
RECURSIVE FieldMatches(_, _)
FieldMatches(lines, key) ==
    IF lines = <<>> THEN <<>>
    ELSE LET l == Head(lines)
             m == ValueMatch(l.val)
         IN  (IF l.key = key /\ m.found THEN <<m.group>> ELSE <<>>)
             \o FieldMatches(Tail(lines), key)

\* re.search(r'^id:...', content, re.MULTILINE): the first top-level id line
RECURSIVE TopLevelId(_)
TopLevelId(lines) ==
    IF lines = <<>> THEN [found |-> FALSE, group |-> <<>>]
    ELSE LET l == Head(lines)
             m == ValueMatch(l.val)
         IN  IF l.key = "id" /\ ~l.indent /\ m.found THEN m
             ELSE TopLevelId(Tail(lines))

(* from_catalog:\s*\[([^\]]+)\]  and the split of its group *)

HasChar(s, c) == \E i \in DOMAIN s : s[i] = c

\* the text before the first occurrence of c
RECURSIVE Before(_, _)
Before(s, c) ==
    IF Len(s) = 0 \/ s[1] = c THEN <<>> ELSE <<s[1]>> \o Before(Tail(s), c)

BracketMatch(val) ==
    LET v     == LStripOf(val, Spaces)
        inner == IF Len(v) > 0 THEN Before(Tail(v), "]") ELSE <<>>
    IN  [found |-> /\ Len(v) > 0
                   /\ v[1] = "["
                   /\ HasChar(Tail(v), "]")
                   /\ Len(inner) > 0,
         group |-> inner]

\* item.strip().strip('"').strip("'")
CleanItem(item) == StripOf(StripOf(Strip(item), {"\""}), {"'"})

RECURSIVE NonEmpty(_)
NonEmpty(items) ==
    IF items = <<>> THEN <<>>
    ELSE (IF Head(items) # <<>> THEN <<Head(items)>> ELSE <<>>) \o NonEmpty(Tail(items))

CatalogItems(group) ==
    LET raw == Split(group, ",")
    IN  NonEmpty([i \in DOMAIN raw |-> CleanItem(raw[i])])

RECURSIVE FromCatalogMatches(_)
FromCatalogMatches(lines) ==
    IF lines = <<>> THEN <<>>
    ELSE LET l == Head(lines)
             m == BracketMatch(l.val)
         IN  (IF l.key = "from_catalog" /\ m.found THEN CatalogItems(m.group) ELSE <<>>)
             \o FromCatalogMatches(Tail(lines))

\* the recognizers applied with provider ahead of the list-item id
ManifestIdsProviderFirst(lines) ==
    FieldMatches(lines, "provider") \o FieldMatches(lines, "- id")
        \o FieldMatches(lines, "pattern_id") \o FromCatalogMatches(lines)

\* the four recognizers of collect_used_pattern_ids_from_manifests, in its order
ManifestIds(lines) ==
    FieldMatches(lines, "- id") \o FieldMatches(lines, "pattern_id")
        \o FieldMatches(lines, "provider") \o FromCatalogMatches(lines)

----------------------------------------------------------------------------
(* The table-row recognizer of collect_used_pattern_ids_from_plans:        *)
(*   \|\s*[^|]+\s*\|\s*([a-z0-9-]+)\s*\|\s*(matched|auto-applied|selected) *)
(* under re.IGNORECASE.  A plan is a sequence of rows, a row a sequence of *)
(* cells written "|c1|c2|...|cn|"; the text between two consecutive pipes  *)
(* is a segment, and the line end between two rows is one more segment.    *)

Markers == { <<"m","a","t","c","h","e","d">>,
             <<"a","u","t","o","-","a","p","p","l","i","e","d">>,
             <<"s","e","l","e","c","t","e","d">> }

RECURSIVE Segments(_)
Segments(rows) ==
    IF rows = <<>> THEN <<>>
    ELSE IF Len(rows) = 1 THEN Head(rows)
    ELSE Head(rows) \o << <<"\n">> >> \o Segments(Tail(rows))

\* \s*(matched|auto-applied|selected) at the start of a segment
MarkerAt(seg) ==
    \E mk \in Markers : StartsWithIgnoreCase(LStripOf(seg, Spaces), mk)

\* does the expression match with its first pipe right before segment i
RowMatchAt(segs, i) ==
    /\ i + 2 <= Len(segs)
    /\ Len(segs[i]) > 0
    /\ IsIdentifierIgnoreCase(Strip(segs[i + 1]))
    /\ MarkerAt(segs[i + 2])

\* re.finditer: leftmost matches, the next search starting where a match ended
RECURSIVE RowMatches(_, _)
RowMatches(segs, i) ==
    IF i > Len(segs) THEN <<>>
    ELSE IF RowMatchAt(segs, i)
         THEN <<Strip(segs[i + 1])>> \o RowMatches(segs, i + 3)
         ELSE RowMatches(segs, i + 1)

PlanIds(rows) == RowMatches(Segments(rows), 1)

----------------------------------------------------------------------------
(* load_valid_pattern_ids *)

(* The index document.  state: "absent" (index_path.exists() is false),    *)
(* "unreadable" (read_text raises OSError or UnicodeDecodeError),          *)
(* "invalid" (json.loads raises JSONDecodeError) or "parsed".  A parsed    *)
(* document is top "object" or "other" (a list, string, number or null);   *)
(* patterns is [t, items] with t "missing", "null" or "list"; an item is   *)
(* [t, id] with t "object" or "other" and id the text of its id, <<>> for  *)
(* a missing, null or empty id; categories is [t, groups] with t           *)
(* "missing", "null", "list" (a non-empty list) or "object", and a group   *)
(* is [t, patterns].  Ids are strings.                                     *)

\* for p in X.get("patterns", []): pid = p.get("id"); if pid: ids.add(pid)
PatternsRaises(pv) ==
    \/ pv.t = "null"
    \/ \E i \in DOMAIN pv.items : pv.items[i].t # "object"

PatternsIds(pv) ==
    {pv.items[i].id : i \in {j \in DOMAIN pv.items : pv.items[j].id # <<>>}}

\* for category in (data.get("categories") or {}).values(): ...
CategoriesRaises(cv) ==
    \/ cv.t = "list"
    \/ \E i \in DOMAIN cv.groups :
          cv.groups[i].t = "object" /\ PatternsRaises(cv.groups[i].patterns)

CategoriesIds(cv) ==
    UNION {PatternsIds(cv.groups[i].patterns) :
              i \in {j \in DOMAIN cv.groups : cv.groups[j].t = "object"}}

\* a try block whose except clause misses JSONDecodeError
IndexScanUncaught(ix) ==
    IF ix.state = "absent" THEN [raised |-> FALSE, warned |-> FALSE, ids |-> {}]
    ELSE IF ix.state \in {"unreadable", "invalid"}
         THEN [raised |-> TRUE, warned |-> FALSE, ids |-> {}]
    ELSE IF \/ ix.top # "object"
            \/ PatternsRaises(ix.patterns)
            \/ CategoriesRaises(ix.categories)
         THEN [raised |-> TRUE, warned |-> FALSE, ids |-> {}]
    ELSE [raised |-> FALSE, warned |-> FALSE,
          ids |-> PatternsIds(ix.patterns) \cup CategoriesIds(ix.categories)]

\* a try block that walks the categories only when there is no top-level list
IndexScanListOrGroups(ix) ==
    IF ix.state = "absent" THEN [raised |-> FALSE, warned |-> FALSE, ids |-> {}]
    ELSE IF ix.state = "unreadable" THEN [raised |-> TRUE, warned |-> FALSE, ids |-> {}]
    ELSE IF ix.state = "invalid" THEN [raised |-> FALSE, warned |-> TRUE, ids |-> {}]
    ELSE IF \/ ix.top # "object"
            \/ PatternsRaises(ix.patterns)
            \/ CategoriesRaises(ix.categories)
         THEN [raised |-> TRUE, warned |-> FALSE, ids |-> {}]
    ELSE [raised |-> FALSE, warned |-> FALSE,
          ids |-> IF ix.patterns.t = "list" THEN PatternsIds(ix.patterns)
                  ELSE CategoriesIds(ix.categories)]

\* the try block over index.json: what it adds, whether it warns, whether an
\* exception that is neither JSONDecodeError nor KeyError leaves it
IndexScan(ix) ==
    IF ix.state = "absent" THEN [raised |-> FALSE, warned |-> FALSE, ids |-> {}]
    ELSE IF ix.state = "unreadable" THEN [raised |-> TRUE, warned |-> FALSE, ids |-> {}]
    ELSE IF ix.state = "invalid" THEN [raised |-> FALSE, warned |-> TRUE, ids |-> {}]
    ELSE IF \/ ix.top # "object"
            \/ PatternsRaises(ix.patterns)
            \/ CategoriesRaises(ix.categories)
         THEN [raised |-> TRUE, warned |-> FALSE, ids |-> {}]
    ELSE [raised |-> FALSE, warned |-> FALSE,
          ids |-> PatternsIds(ix.patterns) \cup CategoriesIds(ix.categories)]

\* yaml_file.stem
EntryStem(path) ==
    CASE path = "catalog/patterns/a.yaml"     -> <<"a">>
      [] path = "catalog/patterns/sub/a.yaml" -> <<"a">>
      [] path = "catalog/patterns/X_.yaml"    -> <<"X", "_">>
      [] path = "catalog/patterns/sub/c.yaml" -> <<"c">>

\* the body of the loop over patterns_dir.rglob("*.yaml") for one file
EntryScan(path, file) ==
    {EntryStem(path)} \cup
    (IF file.readable /\ TopLevelId(file.lines).found
     THEN {TopLevelId(file.lines).group} ELSE {})

EntriesIds(en) == UNION {EntryScan(p, en[p]) : p \in DOMAIN en}

IndexPath == "catalog/index.json"

load_valid_pattern_ids(ix, en) ==
    LET scan == IndexScan(ix)
    IN  [raised |-> scan.raised,
         diag   |-> IF scan.warned
                    THEN << [tag |-> "WARN parse", path |-> IndexPath] >> ELSE <<>>,
         ids    |-> scan.ids \cup EntriesIds(en)]

----------------------------------------------------------------------------
(* The collectors *)

\* the orders in which a directory walk may yield the files of a tree:
\* Path.rglob yields them in the order of the directory listing, unsorted
Orders(S) ==
    {o \in [1..Cardinality(S) -> S] : \A i, j \in DOMAIN o : i # j => o[i] # o[j]}

RECURSIVE Concat(_)
Concat(seqs) == IF seqs = <<>> THEN <<>> ELSE Head(seqs) \o Concat(Tail(seqs))

Tagged(path, ids) == [i \in DOMAIN ids |-> <<path, ids[i]>>]

\* the try block of collect_used_pattern_ids_from_manifests for one file
ManifestRefs(path, file) ==
    IF file.readable THEN Tagged(path, ManifestIds(file.lines)) ELSE <<>>

\* the try block of collect_used_pattern_ids_from_plans for one file
PlanRefs(path, file) ==
    IF file.readable THEN Tagged(path, PlanIds(file.rows)) ELSE <<>>

\* print(f"[WARN] Failed to read ...", file=sys.stderr) for the unreadable files
ReadWarnings(docs, order) ==
    LET w(i) == IF docs[order[i]].readable THEN <<>>
                ELSE << [tag |-> "WARN read", path |-> order[i]] >>
    IN  Concat([i \in DOMAIN order |-> w(i)])

collect_used_pattern_ids_from_manifests(order) ==
    Concat([i \in DOMAIN order |-> ManifestRefs(order[i], manifests[order[i]])])

collect_used_pattern_ids_from_plans(order) ==
    Concat([i \in DOMAIN order |-> PlanRefs(order[i], plans[order[i]])])

----------------------------------------------------------------------------
(* sorted(valid_ids): strings ordered by code point *)

CharSeq == <<"\t", "\n", " ", "\"", "'", ",", "-">>
           \o <<"0","1","2","3","4","5","6","7","8","9">>
           \o UpperSeq \o <<"[", "]", "_">> \o LowerSeq

CharRank(c) == CHOOSE i \in DOMAIN CharSeq : CharSeq[i] = c

RECURSIVE TextLess(_, _)
TextLess(s, t) ==
    IF t = <<>> THEN FALSE
    ELSE IF s = <<>> THEN TRUE
    ELSE IF s[1] = t[1] THEN TextLess(Tail(s), Tail(t))
    ELSE CharRank(s[1]) < CharRank(t[1])

RECURSIVE Sorted(_)
Sorted(S) ==
    IF S = {} THEN <<>>
    ELSE LET m == CHOOSE x \in S : \A y \in S \ {x} : TextLess(x, y)
         IN  <<m>> \o Sorted(S \ {m})

PreviewCap == 20

Min(a, b) == IF a < b THEN a ELSE b

----------------------------------------------------------------------------
(* main *)

Line(tag, n, id, path) == [tag |-> tag, n |-> n, id |-> id, path |-> path]

IdLines(tag, ids) == [i \in DOMAIN ids |-> Line(tag, 0, ids[i], "")]

\* if verbose: the catalog listing printed after the load
VerboseCatalog(ids) ==
    <<Line("[INFO] valid pattern IDs", Cardinality(ids), <<>>, "")>>
        \o IdLines("       - ", Sorted(ids)) \o <<Line("", 0, <<>>, "")>>

\* if verbose: the count printed after the collection
VerboseUsed(used) ==
    <<Line("[INFO] pattern ID references", Len(used), <<>>, ""), Line("", 0, <<>>, "")>>

\* a loop that reports an absent identifier at its first occurrence only
RECURSIVE FailuresOncePerId(_, _)
FailuresOncePerId(used, valid) ==
    IF used = <<>> THEN <<>>
    ELSE LET init == SubSeq(used, 1, Len(used) - 1)
             last == used[Len(used)]
         IN  FailuresOncePerId(init, valid)
             \o (IF /\ last[2] \notin valid
                    /\ \A i \in DOMAIN init : init[i][2] # last[2]
                 THEN <<last>> ELSE <<>>)

\* the validation loop
RECURSIVE Failures(_, _)
Failures(used, valid) ==
    IF used = <<>> THEN <<>>
    ELSE (IF Head(used)[2] \notin valid THEN <<Head(used)>> ELSE <<>>)
         \o Failures(Tail(used), valid)

\* the report of the failure branch
ErrorReport(errs, valid) ==
    LET shown == SubSeq(Sorted(valid), 1, Min(PreviewCap, Cardinality(valid)))
    IN  <<Line("[ERROR] Unknown pattern IDs found:", 0, <<>>, "")>>
        \o [i \in DOMAIN errs |-> Line("  - unknown", 0, errs[i][2], errs[i][1])]
        \o <<Line("", 0, <<>>, ""), Line("Available pattern IDs:", 0, <<>>, "")>>
        \o IdLines("  - ", shown)
        \o (IF Cardinality(valid) > PreviewCap
            THEN <<Line("  ... more", Cardinality(valid) - PreviewCap, <<>>, "")>>
            ELSE <<>>)

\* the report of the success branch
OkReport(used) ==
    IF used # <<>>
    THEN <<Line("[OK] All references are valid.", Len(used), <<>>, "")>>
    ELSE <<Line("[OK] No pattern ID references found to validate.", 0, <<>>, "")>>

\* the exit code main chooses
ExitCodeFor(errs) == IF errs # <<>> THEN 1 ELSE 0

\* lines 137-144: the load; an exception leaving it ends the process with status 1
LoadValidPatternIds ==
    /\ pc = "load"
    /\ LET r == load_valid_pattern_ids(index, entries)
       IN  IF r.raised
           THEN /\ pc' = "fault"
                /\ exit_code' = 1
                /\ stderr' = stderr \o r.diag \o << [tag |-> "Traceback", path |-> IndexPath] >>
                /\ UNCHANGED <<valid_ids, stdout>>
           ELSE /\ pc' = "manifests"
                /\ valid_ids' = r.ids
                /\ stderr' = stderr \o r.diag
                /\ stdout' = stdout \o (IF verbose THEN VerboseCatalog(r.ids) ELSE <<>>)
                /\ UNCHANGED exit_code
    /\ UNCHANGED <<tree, verbose, used_ids, errors, run, first_report>>

\* line 148
CollectManifests ==
    /\ pc = "manifests"
    /\ \E order \in Orders(DOMAIN manifests) :
          /\ used_ids' = used_ids \o collect_used_pattern_ids_from_manifests(order)
          /\ stderr' = stderr \o ReadWarnings(manifests, order)
    /\ pc' = "plans"
    /\ UNCHANGED <<tree, verbose, valid_ids, errors, stdout, exit_code, run, first_report>>

\* lines 149-153
CollectPlans ==
    /\ pc = "plans"
    /\ \E order \in Orders(DOMAIN plans) :
          /\ used_ids' = used_ids \o collect_used_pattern_ids_from_plans(order)
          /\ stderr' = stderr \o ReadWarnings(plans, order)
          /\ stdout' = stdout \o (IF verbose THEN VerboseUsed(used_ids') ELSE <<>>)
    /\ pc' = "validate"
    /\ UNCHANGED <<tree, verbose, valid_ids, errors, exit_code, run, first_report>>

\* lines 155-159
Validate ==
    /\ pc = "validate"
    /\ errors' = Failures(used_ids, valid_ids)
    /\ pc' = "report"
    /\ UNCHANGED <<tree, verbose, valid_ids, used_ids, stdout, stderr, exit_code, run,
                   first_report>>

\* lines 161-178
Report ==
    /\ pc = "report"
    /\ stdout' = stdout \o (IF errors # <<>> THEN ErrorReport(errors, valid_ids)
                            ELSE OkReport(used_ids))
    /\ exit_code' = ExitCodeFor(errors)
    /\ pc' = "done"
    /\ UNCHANGED <<tree, verbose, valid_ids, used_ids, errors, stderr, run, first_report>>

\* the script is started again on the unchanged tree
Rerun ==
    /\ pc \in {"done", "fault"}
    /\ run = 1
    /\ run' = 2
    /\ first_report' = [out |-> stdout, code |-> exit_code, refs |-> used_ids]
    /\ pc' = "load"
    /\ valid_ids' = {}
    /\ used_ids' = <<>>
    /\ errors' = <<>>
    /\ stdout' = <<>>
    /\ stderr' = <<>>
    /\ exit_code' = -1
    /\ UNCHANGED <<tree, verbose>>

Next ==
    \/ LoadValidPatternIds
    \/ CollectManifests
    \/ CollectPlans
    \/ Validate
    \/ Report
    \/ Rerun

----------------------------------------------------------------------------
(* The file trees the runs start from *)

MaxLines == 2          \* lines of a dependent or catalog entry document
MaxRows == 2           \* rows of a plan document
MaxIndexEntries == 2   \* entries of a patterns list of the index

SeqsUpTo(S, n) == UNION {[1..k -> S] : k \in 0..n}

EmptyTree == [p \in {} |-> [readable |-> FALSE]]

\* the trees with a file from D1 at p1 and, possibly, a file from D2 at p2
Trees(p1, D1, p2, D2) ==
    {EmptyTree} \cup {p1 :> d : d \in D1} \cup {p2 :> e : e \in D2}
        \cup {(p1 :> d) @@ (p2 :> e) : d \in D1, e \in D2}

IdA == <<"a">>
IdB == <<"b", "-", "1">>
IdC == <<"c">>

\* index.json
IndexItems ==
    {[t |-> "object", id |-> x] : x \in {<<>>, IdA, IdB}} \cup {[t |-> "other", id |-> <<>>]}

PatternsValues(n) ==
    {[t |-> k, items |-> <<>>] : k \in {"missing", "null"}}
        \cup {[t |-> "list", items |-> its] : its \in SeqsUpTo(IndexItems, n)}

IndexGroups ==
    {[t |-> "other", patterns |-> [t |-> "missing", items |-> <<>>]]}
        \cup {[t |-> "object", patterns |-> pv] : pv \in PatternsValues(1)}

CategoriesValues ==
    {[t |-> k, groups |-> <<>>] : k \in {"missing", "null", "list"}}
        \cup {[t |-> "object", groups |-> gs] : gs \in SeqsUpTo(IndexGroups, 1)}

NoPatterns == [t |-> "missing", items |-> <<>>]
NoCategories == [t |-> "missing", groups |-> <<>>]

IndexOf(state, top, pv, cv) ==
    [state |-> state, top |-> top, patterns |-> pv, categories |-> cv]

UnparsedIndexes ==
    {IndexOf(st, "other", NoPatterns, NoCategories) : st \in {"absent", "unreadable", "invalid"}}

IndexDocs ==
    UnparsedIndexes
        \cup {IndexOf("parsed", "other", NoPatterns, NoCategories)}
        \cup {IndexOf("parsed", "object", pv, cv) :
                 pv \in PatternsValues(MaxIndexEntries), cv \in CategoriesValues}


\* catalog/patterns
Txt(indent, key, val) == [indent |-> indent, key |-> key, val |-> val]

EntryLines ==
    { Txt(FALSE, "id", <<" ", "c">>),
      Txt(FALSE, "id", <<" ", "\"", "b", "-", "1", "\"", " ">>),
      Txt(TRUE,  "id", <<" ", "a">>),
      Txt(FALSE, "id", <<" ", "N", "o">>),
      Txt(FALSE, "name", <<" ", "c">>) }

Unreadable == [readable |-> FALSE, lines |-> <<>>]

EntryFiles ==
    {Unreadable} \cup {[readable |-> TRUE, lines |-> ls] : ls \in SeqsUpTo(EntryLines, MaxLines)}

SomeEntryFiles ==
    {Unreadable, [readable |-> TRUE, lines |-> <<Txt(FALSE, "id", <<" ", "c">>)>>]}

EntryTrees ==
    Trees("catalog/patterns/a.yaml", EntryFiles, "catalog/patterns/X_.yaml", SomeEntryFiles)
        \cup Trees("catalog/patterns/sub/a.yaml", SomeEntryFiles,
                   "catalog/patterns/sub/c.yaml", SomeEntryFiles)

SomeEntryTrees ==
    Trees("catalog/patterns/a.yaml", SomeEntryFiles, "catalog/patterns/X_.yaml", {Unreadable})

\* manifests
ManifestLines ==
    { Txt(TRUE,  "- id", <<" ", "a">>),
      Txt(TRUE,  "provider", <<" ", "b", "-", "1">>),
      Txt(FALSE, "pattern_id", <<"\n", " ", " ", "'", "c", "'", "\n">>),
      Txt(FALSE, "provider", <<" ", "c", " ", "#">>),
      Txt(FALSE, "id", <<" ", "a">>),
      Txt(FALSE, "from_catalog", <<" ", "[", "a", ",", " ", "\"", "X", "_", "\"", ",", "]">>) }

ManifestFiles ==
    {Unreadable}
        \cup {[readable |-> TRUE, lines |-> ls] : ls \in SeqsUpTo(ManifestLines, MaxLines)}

SomeManifestFiles ==
    { Unreadable,
      [readable |-> TRUE, lines |-> <<Txt(TRUE, "- id", <<" ", "c">>),
                                      Txt(FALSE, "provider", <<" ", "a">>)>>] }

ManifestTrees ==
    Trees("manifests/m.yaml", ManifestFiles, "manifests/sub/n.yaml", SomeManifestFiles)

SomeManifestTrees ==
    Trees("manifests/m.yaml", SomeManifestFiles, "manifests/sub/n.yaml",
          {[readable |-> TRUE, lines |-> <<Txt(TRUE, "provider", <<" ", "b", "-", "1">>)>>]})

\* specs
Foo == <<" ", "F", "o", "o", " ">>
Matched == <<" ", "m", "a", "t", "c", "h", "e", "d", " ">>

PlanRows ==
    { <<Foo, <<" ", "a", " ">>, Matched>>,
      <<Foo, <<" ", "c", " ">>, <<" ", "r", "e", "j", "e", "c", "t", "e", "d", " ">>>>,
      <<Foo, <<" ", "b", "-", "1", " ">>,
        <<" ", "s", "e", "l", "e", "c", "t", "e", "d", "-", "n", "o", " ">>>>,
      <<Foo, <<"U", "P">>, <<"S", "e", "l", "e", "c", "t", "e", "d">>>>,
      <<<<" ", "c", " ">>, <<" ", "a", "u", "t", "o", "-", "a", "p", "p", "l", "i", "e", "d", " ">>>>,
      <<Foo, <<" ", "a", " ">>, <<" ", "c", " ">>, Matched>>,
      <<<<>>, <<" ", "c", " ">>, Matched>> }

UnreadablePlan == [readable |-> FALSE, rows |-> <<>>]

PlanFiles ==
    {UnreadablePlan} \cup {[readable |-> TRUE, rows |-> rs] : rs \in SeqsUpTo(PlanRows, MaxRows)}

SomePlanFiles ==
    { UnreadablePlan,
      [readable |-> TRUE, rows |-> << <<Foo, <<" ", "c", " ">>, Matched>> >>] }

PlanTrees == Trees("specs/f1/plan.md", PlanFiles, "specs/f2/plan.md", SomePlanFiles)

SomePlanTrees ==
    Trees("specs/f1/plan.md", SomePlanFiles, "specs/f2/plan.md",
          {[readable |-> TRUE, rows |-> << <<Foo, <<" ", "a", " ">>, Matched>> >>]})

\* the state of main before its first statement
Start ==
    /\ pc = "load"
    /\ valid_ids = {}
    /\ used_ids = <<>>
    /\ errors = <<>>
    /\ stdout = <<>>
    /\ stderr = <<>>
    /\ exit_code = -1
    /\ run = 1
    /\ first_report = [out |-> <<>>, code |-> -1, refs |-> <<>>]

\* one tree of each kind, for the runs that vary another part of the input
BaseIndex ==
    IndexOf("parsed", "object",
            [t |-> "list", items |-> <<[t |-> "object", id |-> IdB]>>], NoCategories)

SomeIndexes == UnparsedIndexes \cup {BaseIndex}

BaseEntries ==
    "catalog/patterns/a.yaml" :> [readable |-> TRUE, lines |-> <<Txt(FALSE, "id", <<" ", "c">>)>>]

BaseManifests ==
    ("manifests/m.yaml" :>
        [readable |-> TRUE, lines |-> <<Txt(FALSE, "provider", <<" ", "a">>),
                                        Txt(TRUE, "- id", <<" ", "c">>)>>])
    @@ ("manifests/sub/n.yaml" :>
        [readable |-> TRUE, lines |-> <<Txt(TRUE, "provider", <<" ", "b", "-", "1">>)>>])

BasePlans ==
    "specs/f1/plan.md" :> [readable |-> TRUE, rows |-> << <<Foo, <<" ", "a", " ">>, Matched>> >>]

InitTree ==
    \/ /\ index \in IndexDocs
       /\ entries \in {EmptyTree, BaseEntries}
       /\ manifests = BaseManifests
       /\ plans = BasePlans
       /\ verbose = FALSE
    \/ /\ index \in SomeIndexes \ {IndexOf("unreadable", "other", NoPatterns, NoCategories)}
       /\ entries \in EntryTrees
       /\ manifests = BaseManifests
       /\ plans = BasePlans
       /\ verbose = FALSE
    \/ /\ index \in {IndexOf("absent", "other", NoPatterns, NoCategories), BaseIndex}
       /\ entries = BaseEntries
       /\ manifests \in ManifestTrees
       /\ plans \in {EmptyTree, BasePlans}
       /\ verbose = FALSE
    \/ /\ index \in {IndexOf("absent", "other", NoPatterns, NoCategories), BaseIndex}
       /\ entries = BaseEntries
       /\ manifests \in {EmptyTree, BaseManifests}
       /\ plans \in PlanTrees
       /\ verbose = FALSE
    \/ /\ index \in SomeIndexes
       /\ entries \in SomeEntryTrees
       /\ manifests \in SomeManifestTrees
       /\ plans \in SomePlanTrees
       /\ verbose \in BOOLEAN

Init == InitTree /\ Start

Spec == Init /\ [][Next]_vars

----------------------------------------------------------------------------
(* Properties *)

Returned == pc \notin {"load", "fault"}      \* load_valid_pattern_ids has returned
Collected == pc \in {"validate", "report", "done"}
Reported == pc \in {"done", "fault"}         \* the process has ended

RefPaths == {used_ids[i][1] : i \in DOMAIN used_ids}
AllValid == \A i \in DOMAIN used_ids : used_ids[i][2] \in valid_ids

\* the positions of used_ids whose identifier is absent from valid_ids
Bad == {i \in DOMAIN used_ids : used_ids[i][2] \notin valid_ids}
KthBad(k) == CHOOSE i \in Bad : Cardinality({j \in Bad : j < i}) = k - 1

\* C1: once the validation loop has run, errors is exactly the subsequence of
\* used_ids whose identifier is not in valid_ids: one failure per occurrence, none
\* for a present identifier, in the order of used_ids.
C1_FailuresAreTheAbsentSubsequence ==
    pc \in {"report", "done"} =>
        /\ Len(errors) = Cardinality(Bad)
        /\ \A k \in DOMAIN errors : errors[k] = used_ids[KthBad(k)]

\* an identifier referenced twice and absent, reported twice, beside a valid reference
C1_Witness ==
    /\ pc = "done"
    /\ Len(errors) < Len(used_ids)
    /\ \E i, j \in DOMAIN errors : i < j /\ errors[i][2] = errors[j][2]
    /\ \E i, j \in DOMAIN errors : i < j /\ errors[i][2] # errors[j][2]

\* C2: when the process has ended, its exit code is 0 iff every collected reference
\* is in the valid set and 1 iff at least one is absent.
C2_ExitCodeIffAllValid ==
    Reported => /\ (exit_code = 0 <=> AllValid)
                /\ (exit_code = 1 <=> ~AllValid)

\* C3: no run ends with an exception leaving load_valid_pattern_ids or a collector;
\* every run reaches the report.
C3_NoUncaughtFault == pc # "fault"

Warned(tag, path) == \E i \in DOMAIN stderr : stderr[i].tag = tag /\ stderr[i].path = path

\* the first top-level id line of a file whose value is an identifier
DeclaresAt(file, i) ==
    LET Decl(j) == /\ file.lines[j].key = "id"
                   /\ ~file.lines[j].indent
                   /\ ValueMatch(file.lines[j].val).found
    IN  Decl(i) /\ \A j \in 1..(i - 1) : ~Decl(j)

DeclaredIds(file) ==
    IF file.readable
    THEN {ValueMatch(file.lines[i].val).group :
             i \in {j \in DOMAIN file.lines : DeclaresAt(file, j)}}
    ELSE {}

C5_UnreadableEntryIsDiagnosed ==
    (pc # "load" /\ ~IndexScan(index).raised) =>
        \A p \in DOMAIN entries :
            ~entries[p].readable =>
                /\ pc # "fault"
                /\ EntryStem(p) \in valid_ids
                /\ \A q \in DOMAIN entries : DeclaredIds(entries[q]) \subseteq valid_ids
                /\ \E i \in DOMAIN stderr : stderr[i].path = p

IndexListIds ==
    IF index.state = "parsed" /\ index.top = "object"
    THEN {x \in {index.patterns.items[i].id : i \in DOMAIN index.patterns.items} : x # <<>>}
    ELSE {}

IndexGroupIds ==
    IF index.state = "parsed" /\ index.top = "object"
    THEN {x \in UNION {{g.patterns.items[i].id : i \in DOMAIN g.patterns.items} :
                          g \in Range(index.categories.groups)} : x # <<>>}
    ELSE {}

\* C7: the returned set is the union of the ids of the index's top-level list, the
\* ids of every category group, the base name of every entry file and the id
\* declared in each readable entry file; nothing else is in it.
C7_ValidIdsAreTheUnionOfFourSources ==
    Returned =>
        \A x \in valid_ids \cup IndexListIds \cup IndexGroupIds
                 \cup {EntryStem(p) : p \in DOMAIN entries}
                 \cup UNION {DeclaredIds(entries[p]) : p \in DOMAIN entries} :
            x \in valid_ids <=>
                \/ x \in IndexListIds
                \/ x \in IndexGroupIds
                \/ \E p \in DOMAIN entries : x = EntryStem(p)
                \/ \E p \in DOMAIN entries : x \in DeclaredIds(entries[p])

\* the list and a category group both supply an id, and an entry file declares an id
\* that differs from its base name
C7_Witness ==
    /\ Returned
    /\ IndexListIds # {}
    /\ IndexGroupIds \ IndexListIds # {}
    /\ \E p \in DOMAIN entries :
          /\ DeclaredIds(entries[p]) \ (IndexListIds \cup IndexGroupIds) # {}
          /\ EntryStem(p) \notin DeclaredIds(entries[p])
          /\ EntryStem(p) \in valid_ids

ToLowerText(s) == [i \in DOMAIN s |-> ToLower(s[i])]

\* C8: every reference collected from a plan is the second cell of one row whose
\* third cell, the status, is one of the acceptance markers.
C8_PlanRefsComeFromAcceptedRows ==
    Collected =>
        \A i \in DOMAIN used_ids :
            used_ids[i][1] \in DOMAIN plans =>
                \E r \in Range(plans[used_ids[i][1]].rows) :
                    /\ Len(r) >= 3
                    /\ Strip(r[2]) = used_ids[i][2]
                    /\ ToLowerText(Strip(r[3])) \in Markers

\* C9: every collected identifier matches [a-z0-9-]+.
C9_CollectedIdsAreLexicallyValid ==
    \A i \in DOMAIN used_ids : IsIdentifier(used_ids[i][2])

\* the identifiers one recognizer finds in the lines, in text order
FieldIdsInTextOrder(lines, key) ==
    LET Hit(l) == l.key = key /\ ValueMatch(l.val).found
        hits == SelectSeq(lines, Hit)
    IN  [i \in DOMAIN hits |-> ValueMatch(hits[i].val).group]

BracketIdsInTextOrder(lines) ==
    LET Hit(l) == l.key = "from_catalog" /\ BracketMatch(l.val).found
        hits == SelectSeq(lines, Hit)
    IN  Concat([i \in DOMAIN hits |-> CatalogItems(BracketMatch(hits[i].val).group)])

RefsOf(path) ==
    LET From(ref) == ref[1] = path
        refs == SelectSeq(used_ids, From)
    IN  [i \in DOMAIN refs |-> refs[i][2]]

\* C10: in used_ids the references of manifests precede those of plans, the
\* references of one document are contiguous, and those of one manifest are the
\* matches of list-item id, pattern_id, provider and from_catalog, in that order,
\* each in text order.
C10_ReferenceOrder ==
    Collected =>
        /\ \A i, j \in DOMAIN used_ids :
              (i < j /\ used_ids[i][1] \in DOMAIN plans) => used_ids[j][1] \in DOMAIN plans
        /\ \A i, j, k \in DOMAIN used_ids :
              (i < k /\ k < j /\ used_ids[i][1] = used_ids[j][1])
                  => used_ids[k][1] = used_ids[i][1]
        /\ \A p \in DOMAIN manifests :
              manifests[p].readable =>
                  RefsOf(p) = FieldIdsInTextOrder(manifests[p].lines, "- id")
                              \o FieldIdsInTextOrder(manifests[p].lines, "pattern_id")
                              \o FieldIdsInTextOrder(manifests[p].lines, "provider")
                              \o BracketIdsInTextOrder(manifests[p].lines)

\* a manifest whose provider line stands above its list-item id line, the list-item
\* reference nevertheless first; another manifest and a plan with references
C10_Witness ==
    /\ pc = "done"
    /\ \E p \in DOMAIN manifests :
          /\ manifests[p].readable
          /\ Len(manifests[p].lines) = 2
          /\ manifests[p].lines[1].key = "provider"
          /\ manifests[p].lines[2].key = "- id"
          /\ Len(RefsOf(p)) = 2
          /\ RefsOf(p)[1] = ValueMatch(manifests[p].lines[2].val).group
          /\ RefsOf(p)[1] # RefsOf(p)[2]
    /\ Cardinality(RefPaths \cap DOMAIN manifests) = 2
    /\ RefPaths \cap DOMAIN plans # {}

====
